---- MODULE Spec2Model ----
(***************************************************************************)
(* A model of get_module_io.py: the script reads a Verilog module          *)
(* description into a string, finds the module name, the input ports and   *)
(* the output ports with three regular expressions, builds one dictionary  *)
(* per direction and writes <moduleName>_io.csv.                           *)
(*                                                                         *)
(* Text is a sequence of one-character strings.  The regular expressions   *)
(* are translated construct by construct into operators over such          *)
(* sequences, with Python's leftmost, greedy, backtracking semantics.      *)
(***************************************************************************)
EXTENDS Integers, Sequences, FiniteSets, TLC

VARIABLES
    pc,               \* position of the script
    moduleContents,   \* the text read from the module file (line 115)
    bound,            \* the names of the script's variables that are assigned
    matches,          \* result of the last re.findall
    moduleName,
    moduleInputs, numInputs,
    moduleOutputs, numOutputs,
    inputDictionary, outputDictionary,   \* ordered dictionaries: sequences of <<key, value>>
    i,                \* loop index of the for loops (lines 156, 163) and of the row loops
    csvState,         \* "absent", "open" or "closed"
    csvName,          \* name the report was opened under
    csvRows,          \* rows written to the report, in order
    stdout            \* messages printed, in order

vars == <<pc, moduleContents, bound, matches, moduleName, moduleInputs, numInputs,
          moduleOutputs, numOutputs, inputDictionary, outputDictionary, i,
          csvState, csvName, csvRows, stdout>>

(***************************************************************************)
(* Character classes of the patterns (lines 122-125).                      *)
(***************************************************************************)
Lower == {"a","b","c","d","e","f","g","h","i","j","k","l","m",
          "n","o","p","q","r","s","t","u","v","w","x","y","z"}
Upper == {"A","B","C","D","E","F","G","H","I","J","K","L","M",
          "N","O","P","Q","R","S","T","U","V","W","X","Y","Z"}
Digit == {"0","1","2","3","4","5","6","7","8","9"}

\* [a-zA-Z\_]
LetterUnderscore == Lower \cup Upper \cup {"_"}
\* [a-zA-Z\_0-9], also the \w of \b
WordChar == LetterUnderscore \cup Digit
\* \s and [\n\s]
WhiteSpace == {" ", "\t", "\n", "\r", "\f"}
\* the class inside a literal bracket expression: backquote, letters, digits, _ - + : * / and space
\* (the backquote character cannot be written in a string: it is the atom below)
Backquote == "backquote"
BracketChar == WordChar \cup {Backquote, "-", "+", ":", "*", "/", " "}
\* the class of the port name: letters, digits, _ $ { }
PortNameChar == WordChar \cup {"$", "{", "}"}

\* the literal words of the patterns
kwModule == <<"m","o","d","u","l","e">>
kwInput  == <<"i","n","p","u","t">>
kwOutput == <<"o","u","t","p","u","t">>
kwWire   == <<"w","i","r","e">>
kwReg    == <<"r","e","g">>
kwPrefix == <<"$","[","P","R","E","F","I","X","]">>

(***************************************************************************)
(* Regular-expression primitives.  A position is an index into the text;   *)
(* an end position is the index of the first character not consumed.       *)
(***************************************************************************)
\* (?<!(?: |/|[a-zA-Z\_])) : the character before p is none of these
LookBehindChar == {" ", "/"} \cup LetterUnderscore
LookBehindOk(t, p) ==
    \/ p = 1
    \/ t[p - 1] \notin LookBehindChar

\* a literal word w at p
Lit(t, p, w) ==
    /\ p + Len(w) - 1 <= Len(t)
    /\ \A k \in 1..Len(w) : t[p + k - 1] = w[k]

\* greedy run of characters of class cls from p: the end position
RECURSIVE RunEnd(_, _, _)
RunEnd(t, p, cls) ==
    IF p <= Len(t) /\ t[p] \in cls THEN RunEnd(t, p + 1, cls) ELSE p

\* \b at p
WordBoundary(t, p) ==
    LET before == p > 1 /\ p - 1 <= Len(t) /\ t[p - 1] \in WordChar
        after  == p <= Len(t) /\ t[p] \in WordChar
    IN  before # after

\* text[a .. b-1]
Slice(t, a, b) == SubSeq(t, a, b - 1)

\* the result of a failed match attempt; a successful one is <<groups, end>>
NoMatch == <<>>
Matched(m) == Len(m) > 0

\* the first successful attempt of a sequence of attempts, tried in order
\* (the order in which the backtracking matcher tries the alternatives)
RECURSIVE FirstMatch(_)
FirstMatch(attempts) ==
    IF Len(attempts) = 0 THEN NoMatch
    ELSE IF Matched(Head(attempts)) THEN Head(attempts)
    ELSE FirstMatch(Tail(attempts))

(***************************************************************************)
(* moduleNamePattern (line 122):                                           *)
(*   lookbehind  module \s+ (?:\$\[PREFIX\])? ([a-zA-Z\_0-9]+)             *)
(*   [\n\s]* #? [\n\s]* \(                                                 *)
(***************************************************************************)
\* ([a-zA-Z\_0-9]+)[\n\s]*#?[\n\s]*\( from q
ModuleNameTail(t, q) ==
    LET e   == RunEnd(t, q, WordChar)
        w1  == RunEnd(t, e, WhiteSpace)
        \* #? taken, then skipped
        h1  == IF w1 <= Len(t) /\ t[w1] = "#" THEN w1 + 1 ELSE w1
        w2  == RunEnd(t, h1, WhiteSpace)
    IN  IF e = q THEN NoMatch
        ELSE IF w2 <= Len(t) /\ t[w2] = "(" THEN <<Slice(t, q, e), w2 + 1>>
        ELSE IF w1 <= Len(t) /\ t[w1] = "(" THEN <<Slice(t, q, e), w1 + 1>>
        ELSE NoMatch

\* module\s+(?:\$\[PREFIX\])?... at p, the lookbehind apart
ModuleHeaderAt(t, p) ==
    LET k == p + Len(kwModule)
        w == RunEnd(t, k, WhiteSpace)
    IN  IF ~Lit(t, p, kwModule) THEN NoMatch
        ELSE IF w = k THEN NoMatch
        ELSE FirstMatch(<<
                 IF Lit(t, w, kwPrefix) THEN ModuleNameTail(t, w + Len(kwPrefix)) ELSE NoMatch,
                 ModuleNameTail(t, w) >>)

ModuleNameMatchAt(t, p) ==
    IF LookBehindOk(t, p) THEN ModuleHeaderAt(t, p) ELSE NoMatch

(***************************************************************************)
(* moduleInputsPattern / moduleOutputsPattern (lines 124-125), kw being    *)
(* input or output:                                                        *)
(*   lookbehind (kw){1} \s+ (wire\b|reg\b)? \s* (dim)? \s* (dim)? \s*      *)
(*   ([a-zA-Z\_0-9\$\{\}]+) \s* ,?                                         *)
(* where dim is  \[ [bracket class]+ \]  |  \$\$\{ [a-zA-Z\_]+ \}  |       *)
(*               \$\[ [a-zA-Z\_]+ \]                                       *)
(***************************************************************************)
\* one dim alternative at p: its end position, or 0 when none matches
DimEnd(t, p) ==
    LET b == RunEnd(t, p + 1, BracketChar)
        c == RunEnd(t, p + 3, LetterUnderscore)
        d == RunEnd(t, p + 2, LetterUnderscore)
    IN  IF Lit(t, p, <<"[">>) /\ b > p + 1 /\ Lit(t, b, <<"]">>) THEN b + 1
        ELSE IF Lit(t, p, <<"$", "$", "{">>) /\ c > p + 3 /\ Lit(t, c, <<"}">>) THEN c + 1
        ELSE IF Lit(t, p, <<"$", "[">>) /\ d > p + 2 /\ Lit(t, d, <<"]">>) THEN d + 1
        ELSE 0

\* (wire\b|reg\b) at p: its end position, or 0
StorageClassEnd(t, p) ==
    IF Lit(t, p, kwWire) /\ WordBoundary(t, p + Len(kwWire)) THEN p + Len(kwWire)
    ELSE IF Lit(t, p, kwReg) /\ WordBoundary(t, p + Len(kwReg)) THEN p + Len(kwReg)
    ELSE 0

\* ([a-zA-Z\_0-9\$\{\}]+)\s*,? at q, the earlier groups being kw, sc, d1, d2
PortNameTail(t, q, kw, sc, d1, d2) ==
    LET e == RunEnd(t, q, PortNameChar)
        w == RunEnd(t, e, WhiteSpace)
        c == IF w <= Len(t) /\ t[w] = "," THEN w + 1 ELSE w
    IN  IF e = q THEN NoMatch
        ELSE << <<kw, sc, d1, d2, Slice(t, q, e)>>, c >>

\* \s*(dim)?\s*(dim)?\s*name... from q: each optional group is tried
\* taken before skipped
PortDimsTail(t, q, kw, sc) ==
    LET a  == RunEnd(t, q, WhiteSpace)
        e1 == DimEnd(t, a)
        b  == RunEnd(t, e1, WhiteSpace)
        e2 == DimEnd(t, b)
        c  == RunEnd(t, e2, WhiteSpace)
    IN  FirstMatch(<<
            \* group 3 taken, group 4 taken
            IF e1 > 0 /\ e2 > 0
              THEN PortNameTail(t, c, kw, sc, Slice(t, a, e1), Slice(t, b, e2)) ELSE NoMatch,
            \* group 3 taken, group 4 skipped
            IF e1 > 0
              THEN PortNameTail(t, b, kw, sc, Slice(t, a, e1), <<>>) ELSE NoMatch,
            \* group 3 skipped, group 4 taken (at the same place)
            IF e1 > 0
              THEN PortNameTail(t, b, kw, sc, <<>>, Slice(t, a, e1)) ELSE NoMatch,
            \* both skipped
            PortNameTail(t, a, kw, sc, <<>>, <<>>) >>)

PortMatchAt(t, p, kw) ==
    LET k  == p + Len(kw)
        w  == RunEnd(t, k, WhiteSpace)
        s  == StorageClassEnd(t, w)
    IN  IF ~(LookBehindOk(t, p) /\ Lit(t, p, kw)) THEN NoMatch
        ELSE IF w = k THEN NoMatch
        ELSE FirstMatch(<<
                 IF s > 0 THEN PortDimsTail(t, s, kw, Slice(t, w, s)) ELSE NoMatch,
                 PortDimsTail(t, w, kw, <<>>) >>)

(***************************************************************************)
(* re.findall: the non-overlapping matches found scanning left to right;   *)
(* with one group the list holds the group, with several it holds the      *)
(* tuple of the groups.  A match starts with the first letter of the       *)
(* pattern's keyword, so the scan steps over every other position.         *)
(***************************************************************************)
RECURSIVE FindAllModuleNames(_, _)
FindAllModuleNames(t, p) ==
    IF p > Len(t) THEN <<>>
    ELSE IF t[p] # kwModule[1] THEN FindAllModuleNames(t, p + 1)
    ELSE LET m == ModuleNameMatchAt(t, p)
         IN  IF Matched(m) THEN <<m[1]>> \o FindAllModuleNames(t, m[2])
             ELSE FindAllModuleNames(t, p + 1)

RECURSIVE FindAllPorts(_, _, _)
FindAllPorts(t, p, kw) ==
    IF p > Len(t) THEN <<>>
    ELSE IF t[p] # kw[1] THEN FindAllPorts(t, p + 1, kw)
    ELSE LET m == PortMatchAt(t, p, kw)
         IN  IF Matched(m) THEN <<m[1]>> \o FindAllPorts(t, m[2], kw)
             ELSE FindAllPorts(t, p + 1, kw)

(***************************************************************************)
(* The module files the script is run on.  A file is                       *)
(*   lead  "module"  header form  declarations joined by a separator  tail *)
(***************************************************************************)
\* the longest port list of a file
MaxDecls == 4

\* what precedes the module keyword: nothing, a newline, a tab, a space
\* (indentation), a comment marker, the letters of endmodule
Leads == { <<>>, <<"\n">>, <<"\t">>, <<" ">>, <<"/","/">>, <<"e","n","d">> }

\* " foo (" and " top_1 #", newline, "("
HeaderForms == { <<" ","f","o","o"," ","(">>,
                 <<" ","t","o","p","_","1"," ","#","\n","(">> }

\* ");" alone, or followed by the header of a second module
Tails == { <<")",";">>,
           <<")",";","\n","m","o","d","u","l","e"," ","b","a","r"," ","(">> }

\* comma and space (one line), comma and newline (one declaration a line)
Separators == { <<","," ">>, <<",","\n">> }
OnePerLine == <<",","\n">>

\* input a / input [7:0] b / output reg busy / input wire [7:0] [3] a /
\* output [3] busy
Declarations ==
    { <<"i","n","p","u","t"," ","a">>,
      <<"i","n","p","u","t"," ","[","7",":","0","]"," ","b">>,
      <<"o","u","t","p","u","t"," ","r","e","g"," ","b","u","s","y">>,
      <<"i","n","p","u","t"," ","w","i","r","e"," ","[","7",":","0","]"," ","[","3","]"," ","a">>,
      <<"o","u","t","p","u","t"," ","[","3","]"," ","b","u","s","y">> }

\* module foo (input a, input [7:0] b, output reg busy);
CanonicalDecls == << <<"i","n","p","u","t"," ","a">>,
                     <<"i","n","p","u","t"," ","[","7",":","0","]"," ","b">>,
                     <<"o","u","t","p","u","t"," ","r","e","g"," ","b","u","s","y">> >>

\* ports whose names begin with, or are, a storage-class keyword:
\* input regs / output wire
KeywordLikeDecls == << <<"i","n","p","u","t"," ","r","e","g","s">>,
                       <<"o","u","t","p","u","t"," ","w","i","r","e">> >>

RECURSIVE Join(_, _)
Join(ds, sep) ==
    IF Len(ds) = 0 THEN <<>>
    ELSE IF Len(ds) = 1 THEN ds[1]
    ELSE ds[1] \o sep \o Join(Tail(ds), sep)

Render(lead, form, ds, sep, tail) ==
    lead \o kwModule \o form \o Join(ds, sep) \o tail

DeclLists == UNION { [1..n -> Declarations] : n \in 0..MaxDecls }

\* every header around the two fixed port lists, and every port list, one
\* declaration a line, inside the canonical header
ModuleFiles ==
    { Render(lead, form, ds, sep, tail) :
        lead \in Leads, form \in HeaderForms, ds \in {CanonicalDecls, KeywordLikeDecls},
        sep \in Separators, tail \in Tails }
    \cup
    { Render(<<>>, <<" ","f","o","o"," ","(">>, ds, OnePerLine, <<")",";">>) : ds \in DeclLists }

(***************************************************************************)
(* Python dictionaries (insertion ordered): a sequence of <<key, value>>   *)
(* with distinct keys.                                                     *)
(***************************************************************************)
DictHas(d, key) == \E k \in 1..Len(d) : d[k][1] = key
DictGet(d, key) == d[CHOOSE k \in 1..Len(d) : d[k][1] = key][2]

\* d[key] = value that leaves an existing key as it is
DictSetKeepingFirst(d, key, value) ==
    IF DictHas(d, key) THEN d ELSE Append(d, <<key, value>>)

\* d[key] = value that deletes an existing key and inserts it anew, last
DictSetMovingToEnd(d, key, value) ==
    Append(SelectSeq(d, LAMBDA e : e[1] # key), <<key, value>>)

\* d[key] = value: an existing key keeps its place, a new key goes last
DictSet(d, key, value) ==
    IF DictHas(d, key)
      THEN [k \in 1..Len(d) |-> IF d[k][1] = key THEN <<key, value>> ELSE d[k]]
      ELSE Append(d, <<key, value>>)

\* the two dimension groups taken in the other order
SignalDimensionReversed(m) == m[4] \o m[3]

\* signalDimension = moduleInputs[i][2] + moduleInputs[i][3]  (lines 158, 165);
\* m is the tuple of the five groups, numbered from 1 here and from 0 there
SignalDimension(m) == m[3] \o m[4]

\* the dictionary entry with an absent storage class taken to be wire
PortEntryDefaultingToWire(m) ==
    [signalType |-> IF m[2] = <<>> THEN kwWire ELSE m[2],
     signalDimension |-> m[3] \o m[4]]

\* the dictionary entry built from one match (lines 157-162, 164-169)
PortEntry(m) == [signalType |-> m[2], signalDimension |-> SignalDimension(m)]

\* the rows of the report (lines 175, 179, 183)
HeaderRow == <<"Signal Name", "Input/Output", "Signal Type", "Dimension">>
\* a row with the signal type and the dimension in each other's column
ReportRowSwapped(item, label) ==
    <<item[1], label, item[2].signalDimension, item[2].signalType>>
ReportRow(item, label) == <<item[1], label, item[2].signalType, item[2].signalDimension>>

\* outputCsvFileName = moduleName + "_io.csv" (line 172)
CsvSuffix == <<"_","i","o",".","c","s","v">>
OutputCsvFileName(name) == name \o CsvSuffix

(***************************************************************************)
(* The script, from the point where the file has been read (line 116).     *)
(***************************************************************************)
Init ==
    /\ moduleContents \in ModuleFiles
    /\ pc = "name"
    /\ bound = {"moduleContents"}
    /\ matches = <<>>
    /\ moduleName = <<>>
    /\ moduleInputs = <<>>
    /\ numInputs = 0
    /\ moduleOutputs = <<>>
    /\ numOutputs = 0
    /\ inputDictionary = <<>>
    /\ outputDictionary = <<>>
    /\ i = 0
    /\ csvState = "absent"
    /\ csvName = <<>>
    /\ csvRows = <<>>
    /\ stdout = <<"fileReadSuccess">>

\* the guard of line 130 written as "no match was found"
NameIdentifiedTakingFirst(found) == Len(found) >= 1

\* line 130, negated: exactly one match was found for the module name
NameIdentified(found) == Len(found) = 1

\* lines 127-134
ExtractModuleName ==
    /\ pc = "name"
    /\ LET found == FindAllModuleNames(moduleContents, 1)
       IN  /\ matches' = found
           /\ IF ~NameIdentified(found)
                THEN /\ stdout' = Append(stdout, "moduleNameNotIdentified")
                     /\ pc' = "exit"
                     /\ bound' = bound \cup {"matches"}
                     /\ UNCHANGED moduleName
                ELSE /\ moduleName' = found[1]
                     /\ bound' = bound \cup {"matches", "moduleName"}
                     /\ pc' = "inputs"
                     /\ UNCHANGED stdout
    /\ UNCHANGED <<moduleContents, moduleInputs, numInputs, moduleOutputs, numOutputs,
                   inputDictionary, outputDictionary, i, csvState, csvName, csvRows>>

\* lines 136-142
ExtractInputs ==
    /\ pc = "inputs"
    /\ LET found == FindAllPorts(moduleContents, 1, kwInput)
       IN  /\ matches' = found
           /\ IF Len(found) = 0
                THEN /\ stdout' = Append(stdout, "noInputsIdentified")
                     /\ UNCHANGED <<moduleInputs, numInputs, bound>>
                ELSE /\ moduleInputs' = found
                     /\ numInputs' = Len(found)
                     /\ bound' = bound \cup {"moduleInputs", "numInputs"}
                     /\ UNCHANGED stdout
    /\ pc' = "outputs"
    /\ UNCHANGED <<moduleContents, moduleName, moduleOutputs, numOutputs,
                   inputDictionary, outputDictionary, i, csvState, csvName, csvRows>>

\* lines 144-150
ExtractOutputs ==
    /\ pc = "outputs"
    /\ LET found == FindAllPorts(moduleContents, 1, kwOutput)
       IN  /\ matches' = found
           /\ IF Len(found) = 0
                THEN /\ stdout' = Append(stdout, "noOutputsIdentified")
                     /\ UNCHANGED <<moduleOutputs, numOutputs, bound>>
                ELSE /\ moduleOutputs' = found
                     /\ numOutputs' = Len(found)
                     /\ bound' = bound \cup {"moduleOutputs", "numOutputs"}
                     /\ UNCHANGED stdout
    /\ pc' = "form"
    /\ UNCHANGED <<moduleContents, moduleName, moduleInputs, numInputs,
                   inputDictionary, outputDictionary, i, csvState, csvName, csvRows>>

\* FormDictionaries with the report opened (lines 172-175) ahead of the loops
FormDictionariesOpeningReportFirst ==
    /\ pc = "form"
    /\ inputDictionary' = <<>>
    /\ outputDictionary' = <<>>
    /\ bound' = bound \cup {"inputDictionary", "outputDictionary"}
    /\ i' = 0
    /\ csvName' = OutputCsvFileName(moduleName)
    /\ csvState' = "open"
    /\ csvRows' = <<HeaderRow>>
    /\ pc' = IF "numInputs" \in bound THEN "inputLoop" ELSE "NameError"
    /\ UNCHANGED <<moduleContents, matches, moduleName, moduleInputs, numInputs,
                   moduleOutputs, numOutputs, stdout>>

\* lines 154-156: the two empty dictionaries, then range(0, numInputs), which
\* raises NameError when numInputs was never assigned
FormDictionaries ==
    /\ pc = "form"
    /\ inputDictionary' = <<>>
    /\ outputDictionary' = <<>>
    /\ bound' = bound \cup {"inputDictionary", "outputDictionary"}
    /\ i' = 0
    /\ pc' = IF "numInputs" \in bound THEN "inputLoop" ELSE "NameError"
    /\ UNCHANGED <<moduleContents, matches, moduleName, moduleInputs, numInputs,
                   moduleOutputs, numOutputs, csvState, csvName, csvRows, stdout>>

\* lines 156-162, one iteration (i counts the iterations done)
InputLoopStep ==
    /\ pc = "inputLoop"
    /\ i < numInputs
    /\ LET m == moduleInputs[i + 1]
       IN  inputDictionary' = DictSet(inputDictionary, m[5], PortEntry(m))
    /\ i' = i + 1
    /\ UNCHANGED <<pc, moduleContents, bound, matches, moduleName, moduleInputs, numInputs,
                   moduleOutputs, numOutputs, outputDictionary,
                   csvState, csvName, csvRows, stdout>>

\* line 163: the input loop is over; range(0, numOutputs) raises NameError
\* when numOutputs was never assigned
InputLoopEnd ==
    /\ pc = "inputLoop"
    /\ i = numInputs
    /\ i' = 0
    /\ pc' = IF "numOutputs" \in bound THEN "outputLoop" ELSE "NameError"
    /\ UNCHANGED <<moduleContents, bound, matches, moduleName, moduleInputs, numInputs,
                   moduleOutputs, numOutputs, inputDictionary, outputDictionary,
                   csvState, csvName, csvRows, stdout>>

\* lines 163-169, one iteration
OutputLoopStep ==
    /\ pc = "outputLoop"
    /\ i < numOutputs
    /\ LET m == moduleOutputs[i + 1]
       IN  outputDictionary' = DictSet(outputDictionary, m[5], PortEntry(m))
    /\ i' = i + 1
    /\ UNCHANGED <<pc, moduleContents, bound, matches, moduleName, moduleInputs, numInputs,
                   moduleOutputs, numOutputs, inputDictionary,
                   csvState, csvName, csvRows, stdout>>

\* lines 172-175: the output loop is over; the report is opened for writing
\* (created, or truncated) and the header row written
OpenCsv ==
    /\ pc = "outputLoop"
    /\ i = numOutputs
    /\ csvName' = OutputCsvFileName(moduleName)
    /\ csvState' = "open"
    /\ csvRows' = <<HeaderRow>>
    /\ i' = 0
    /\ pc' = "inputRows"
    /\ UNCHANGED <<moduleContents, bound, matches, moduleName, moduleInputs, numInputs,
                   moduleOutputs, numOutputs, inputDictionary, outputDictionary, stdout>>

\* lines 176-179, one iteration over inputDictionary.items()
WriteInputRow ==
    /\ pc = "inputRows"
    /\ i < Len(inputDictionary)
    /\ csvRows' = Append(csvRows, ReportRow(inputDictionary[i + 1], "Input"))
    /\ i' = i + 1
    /\ UNCHANGED <<pc, moduleContents, bound, matches, moduleName, moduleInputs, numInputs,
                   moduleOutputs, numOutputs, inputDictionary, outputDictionary,
                   csvState, csvName, stdout>>

\* line 180: the input rows are written
InputRowsEnd ==
    /\ pc = "inputRows"
    /\ i = Len(inputDictionary)
    /\ i' = 0
    /\ pc' = "outputRows"
    /\ UNCHANGED <<moduleContents, bound, matches, moduleName, moduleInputs, numInputs,
                   moduleOutputs, numOutputs, inputDictionary, outputDictionary,
                   csvState, csvName, csvRows, stdout>>

\* lines 180-183, one iteration over outputDictionary.items()
WriteOutputRow ==
    /\ pc = "outputRows"
    /\ i < Len(outputDictionary)
    /\ csvRows' = Append(csvRows, ReportRow(outputDictionary[i + 1], "Output"))
    /\ i' = i + 1
    /\ UNCHANGED <<pc, moduleContents, bound, matches, moduleName, moduleInputs, numInputs,
                   moduleOutputs, numOutputs, inputDictionary, outputDictionary,
                   csvState, csvName, stdout>>

\* lines 183-188: the with block ends and closes the report, the two closing
\* messages are printed and the script exits
Finish ==
    /\ pc = "outputRows"
    /\ i = Len(outputDictionary)
    /\ csvState' = "closed"
    /\ stdout' = stdout \o <<"jobDoneMsg", "goodbyeMsg">>
    /\ pc' = "done"
    /\ UNCHANGED <<moduleContents, bound, matches, moduleName, moduleInputs, numInputs,
                   moduleOutputs, numOutputs, inputDictionary, outputDictionary,
                   i, csvName, csvRows>>

Next ==
    \/ ExtractModuleName
    \/ ExtractInputs
    \/ ExtractOutputs
    \/ FormDictionaries
    \/ InputLoopStep
    \/ InputLoopEnd
    \/ OutputLoopStep
    \/ OpenCsv
    \/ WriteInputRow
    \/ InputRowsEnd
    \/ WriteOutputRow
    \/ Finish

Spec == Init /\ [][Next]_vars

\* the run is over: exit() at line 132 or 188, or an uncaught NameError
Terminated == pc \in {"exit", "done", "NameError"}

(***************************************************************************)
(* What the patterns yield on the file of the current run.                 *)
(***************************************************************************)
NameMatches   == FindAllModuleNames(moduleContents, 1)
InputMatches  == FindAllPorts(moduleContents, 1, kwInput)
OutputMatches == FindAllPorts(moduleContents, 1, kwOutput)

\* is the message among those printed
Printed(msg) == \E k \in 1..Len(stdout) : stdout[k] = msg

\* nothing of the interface was assembled and no report exists
NothingBuilt ==
    /\ bound = {"moduleContents", "matches"}
    /\ inputDictionary = <<>>
    /\ outputDictionary = <<>>
    /\ csvState = "absent"
    /\ csvRows = <<>>

\* C1: when the module-name rule yields zero matches or two or more, the run
\* prints moduleNameNotIdentified and exits: the port rules are not applied
\* (no noInputsIdentified / noOutputsIdentified), no dictionary is built and
\* the report is not opened.
C1_NameFailureAborts ==
    (pc # "name" /\ Len(NameMatches) # 1) =>
        /\ pc = "exit"
        /\ stdout = <<"fileReadSuccess", "moduleNameNotIdentified">>
        /\ NothingBuilt

\* a run aborted on a file holding two module headers
C1_Witness == pc = "exit" /\ Len(NameMatches) = 2 /\ Len(InputMatches) > 0

\* C2: with exactly one module name and exactly one empty direction, the run
\* prints the advisory message of that direction, is not faulted, and ends
\* with the report written from an interface whose one map is empty and whose
\* other map holds every port found.
C2_OneEmptyDirectionCompletes ==
    (Terminated /\ Len(NameMatches) = 1
      /\ (Len(InputMatches) = 0) # (Len(OutputMatches) = 0)) =>
        /\ pc = "done"
        /\ Printed("noInputsIdentified") = (Len(InputMatches) = 0)
        /\ Printed("noOutputsIdentified") = (Len(OutputMatches) = 0)
        /\ (Len(InputMatches) = 0 => inputDictionary = <<>>)
        /\ (Len(OutputMatches) = 0 => outputDictionary = <<>>)
        /\ {inputDictionary[k][1] : k \in 1..Len(inputDictionary)}
             = {InputMatches[k][5] : k \in 1..Len(InputMatches)}
        /\ {outputDictionary[k][1] : k \in 1..Len(outputDictionary)}
             = {OutputMatches[k][5] : k \in 1..Len(OutputMatches)}
        /\ csvState = "closed"

\* module foo (input a, input [7:0] b, output reg busy);
CanonicalFile ==
    Render(<<>>, <<" ","f","o","o"," ","(">>, CanonicalDecls, <<","," ">>, <<")",";">>)

\* C3: on the canonical file the run yields moduleName foo, inputs a (no
\* dimension, no storage class) and b ([7:0], no storage class) in that
\* order, and outputs busy (no dimension, reg).
C3_CanonicalHeader ==
    (moduleContents = CanonicalFile /\ Terminated) =>
        /\ moduleName = <<"f","o","o">>
        /\ inputDictionary =
             << << <<"a">>, [signalType |-> <<>>, signalDimension |-> <<>>] >>,
                << <<"b">>, [signalType |-> <<>>, signalDimension |-> <<"[","7",":","0","]">>] >> >>
        /\ outputDictionary =
             << << <<"b","u","s","y">>, [signalType |-> kwReg, signalDimension |-> <<>>] >> >>

\* the places of the file where a well-formed module header stands, preceded
\* by neither an identifier character nor a comment marker
HeaderPlaces(t) ==
    { p \in 1..Len(t) :
        /\ t[p] = kwModule[1]
        /\ Matched(ModuleHeaderAt(t, p))
        /\ (p = 1 \/ t[p - 1] \notin (WordChar \cup {"/"})) }

\* C4: when the file holds exactly one well-formed module header, preceded by
\* the start of the text, a newline, a tab or a space, the run takes exactly
\* its identifier as the module name and does not print moduleNameNotIdentified.
C4_OneHeaderIsIdentified ==
    (pc # "name" /\ Cardinality(HeaderPlaces(moduleContents)) = 1) =>
        LET p == CHOOSE q \in HeaderPlaces(moduleContents) : TRUE
        IN  /\ ~Printed("moduleNameNotIdentified")
            /\ moduleName = ModuleHeaderAt(moduleContents, p)[1]

\* the report holds the header row and one row per entry of the two maps
ReportComplete ==
    /\ Len(csvRows) = 1 + Len(inputDictionary) + Len(outputDictionary)
    /\ csvRows[1] = HeaderRow
    /\ \A k \in 1..Len(inputDictionary) : csvRows[1 + k][1] = inputDictionary[k][1]
    /\ \A k \in 1..Len(outputDictionary) :
          csvRows[1 + Len(inputDictionary) + k][1] = outputDictionary[k][1]

\* C5: the report is written completely or not at all: a run that ends by the
\* module-name failure or by a fault never opened the report, an opened report
\* holds the header row, and a run that ends with the report opened has closed
\* it with one row per entry of the input map and of the output map.
C5_ReportAllOrNothing ==
    /\ (pc \in {"name", "inputs", "outputs", "form", "inputLoop", "outputLoop",
                "exit", "NameError"}
          => csvState = "absent" /\ csvRows = <<>>)
    /\ (csvState # "absent" => Len(csvRows) >= 1 /\ csvRows[1] = HeaderRow)
    /\ (Terminated /\ csvState # "absent" => csvState = "closed" /\ ReportComplete)

\* a run that found input ports, then faulted, and left no report
C5_Witness == pc = "NameError" /\ Len(inputDictionary) > 0 /\ csvState = "absent"

\* the port names of the first n matches
NamesOf(ms, n) == {ms[k][5] : k \in 1..n}
\* the first and the last of the first n matches that declare the name
FirstIndex(ms, n, name) ==
    CHOOSE k \in 1..n : ms[k][5] = name /\ \A j \in 1..(k - 1) : ms[j][5] # name
LastIndex(ms, n, name) ==
    CHOOSE k \in 1..n : ms[k][5] = name /\ \A j \in (k + 1)..n : ms[j][5] # name

\* d is the first n matches merged with the last occurrence of a name winning
MergedLastWins(d, ms, n) ==
    /\ \A j, k \in 1..Len(d) : d[j][1] = d[k][1] => j = k
    /\ {d[k][1] : k \in 1..Len(d)} = NamesOf(ms, n)
    /\ Len(d) = Cardinality(NamesOf(ms, n))
    /\ \A j \in 1..Len(d) :
          LET m == ms[LastIndex(ms, n, d[j][1])]
          IN  /\ d[j][2].signalType = m[2]
              /\ d[j][2].signalDimension = m[3] \o m[4]

\* how many matches of each direction have been merged so far
InputsMerged ==
    IF pc = "inputLoop" THEN i
    ELSE IF pc \in {"outputLoop", "inputRows", "outputRows", "done"} THEN numInputs
    ELSE 0
OutputsMerged ==
    IF pc = "outputLoop" THEN i
    ELSE IF pc \in {"inputRows", "outputRows", "done"} THEN numOutputs
    ELSE 0
Assembling == pc \in {"inputLoop", "outputLoop", "inputRows", "outputRows", "done"}

\* C6: in each direction a name matched two or more times has exactly one
\* entry, holding the storage class and dimension of its last occurrence, and
\* the map has as many entries as there are distinct names matched.
C6_LastOccurrenceWins ==
    Assembling =>
        /\ MergedLastWins(inputDictionary, moduleInputs, InputsMerged)
        /\ MergedLastWins(outputDictionary, moduleOutputs, OutputsMerged)

\* the name is declared twice among the first n matches, with different fields
DeclaredTwice(ms, n) ==
    \E j, k \in 1..n : j < k /\ ms[j][5] = ms[k][5] /\ ms[j][2] # ms[k][2] /\ ms[j][3] # ms[k][3]

\* a finished run in which both directions declared a name twice
C6_Witness ==
    /\ pc = "done"
    /\ DeclaredTwice(moduleInputs, numInputs)
    /\ DeclaredTwice(moduleOutputs, numOutputs)

\* the keys of d stand in the order of their first occurrence among the first n matches
InFirstSeenOrder(d, ms, n) ==
    \A j, k \in 1..Len(d) :
        j < k => FirstIndex(ms, n, d[j][1]) < FirstIndex(ms, n, d[k][1])

\* C7: in each direction's map the names stand in the order of their first
\* occurrence in the source text, after every insertion: a later duplicate
\* moves neither its own name nor any other; the rows of the report
\* follow the same order.
C7_FirstSeenOrder ==
    /\ Assembling =>
          /\ InFirstSeenOrder(inputDictionary, moduleInputs, InputsMerged)
          /\ InFirstSeenOrder(outputDictionary, moduleOutputs, OutputsMerged)
    /\ pc = "done" =>
          /\ \A k \in 1..Len(inputDictionary) : csvRows[1 + k][1] = inputDictionary[k][1]
          /\ \A j, k \in 1..Len(inputDictionary) :
                j < k => FirstIndex(moduleInputs, numInputs, csvRows[1 + j][1])
                           < FirstIndex(moduleInputs, numInputs, csvRows[1 + k][1])

\* a finished run whose inputs were declared a, b, a: the duplicate came
\* after another name
C7_Witness ==
    /\ pc = "done"
    /\ \E j, k, l \in 1..numInputs :
          /\ j < k /\ k < l
          /\ moduleInputs[j][5] = moduleInputs[l][5]
          /\ moduleInputs[j][5] # moduleInputs[k][5]

\* the rows the report is to hold for the two maps
ExpectedRowCount == 1 + Len(inputDictionary) + Len(outputDictionary)
ExpectedRow(k) ==
    IF k = 1 THEN HeaderRow
    ELSE IF k <= 1 + Len(inputDictionary)
      THEN LET e == inputDictionary[k - 1]
           IN  <<e[1], "Input", e[2].signalType, e[2].signalDimension>>
      ELSE LET e == outputDictionary[k - 1 - Len(inputDictionary)]
           IN  <<e[1], "Output", e[2].signalType, e[2].signalDimension>>

\* the rows written so far
RowsWritten ==
    IF pc = "inputRows" THEN 1 + i
    ELSE IF pc = "outputRows" THEN 1 + Len(inputDictionary) + i
    ELSE IF pc = "done" THEN ExpectedRowCount
    ELSE 0

\* C8: the report holds the header row first, then one row (name, "Input",
\* storage class, dimension) per input-map entry in map order, then one row
\* (name, "Output", storage class, dimension) per output-map entry in map
\* order: at every moment the rows written are the leading rows of that
\* sequence, and at the end they are all of it.
C8_ReportRows ==
    /\ Len(csvRows) = RowsWritten
    /\ \A k \in 1..Len(csvRows) :
          /\ Len(csvRows[k]) = 4
          /\ \A c \in 1..4 : csvRows[k][c] = ExpectedRow(k)[c]

\* a finished report with two input rows and an output row, one row with a
\* storage class alone and one with a dimension alone
C8_Witness ==
    /\ pc = "done"
    /\ Len(inputDictionary) >= 2
    /\ Len(outputDictionary) >= 1
    /\ \E k \in 2..Len(csvRows) : csvRows[k][3] # <<>> /\ csvRows[k][4] = <<>>
    /\ \E k \in 2..Len(csvRows) : csvRows[k][3] = <<>> /\ csvRows[k][4] # <<>>

\* the entry of m's name in d holds the two dimension groups of m joined
DimensionComposed(m, d) ==
    LET dim == DictGet(d, m[5]).signalDimension
    IN  /\ dim = m[3] \o m[4]
        /\ (dim = <<>>) = (m[3] = <<>> /\ m[4] = <<>>)
        /\ (m[4] = <<>> => dim = m[3])
        /\ (m[3] = <<>> => dim = m[4])

\* C9: the dimension assembled from a match (storage class, dimA, dimB, name)
\* is dimA followed by dimB: empty exactly when both are empty, and the one
\* bracket expression captured when only one is.
C9_DimensionIsConcatenation ==
    /\ (pc = "inputLoop" /\ i >= 1) => DimensionComposed(moduleInputs[i], inputDictionary)
    /\ (pc = "outputLoop" /\ i >= 1) => DimensionComposed(moduleOutputs[i], outputDictionary)

\* the input just assembled has two different bracket expressions
C9_Witness ==
    /\ pc = "inputLoop" /\ i >= 1
    /\ moduleInputs[i][3] # <<>>
    /\ moduleInputs[i][4] # <<>>
    /\ moduleInputs[i][3] # moduleInputs[i][4]

\* at p stands the direction keyword of m, white space, the storage-class
\* keyword of m as a whole word, then the dimensions and the name of m
DeclaredWithKeywordAt(t, p, m) ==
    LET a == RunEnd(t, p + Len(m[1]), WhiteSpace)
        b == a + Len(m[2])
        c == RunEnd(t, b, WhiteSpace)
        d == RunEnd(t, c + Len(m[3]), WhiteSpace)
        e == RunEnd(t, d + Len(m[4]), WhiteSpace)
    IN  /\ Lit(t, p, m[1])
        /\ a > p + Len(m[1])
        /\ Lit(t, a, m[2])
        /\ (b > Len(t) \/ t[b] \notin WordChar)
        /\ Lit(t, c, m[3])
        /\ Lit(t, d, m[4])
        /\ Lit(t, e, m[5])

\* the storage class of a match is absent, or a keyword standing in the text
StorageClassFromText(t, m) ==
    /\ m[2] \in {<<>>, kwWire, kwReg}
    /\ m[2] # <<>> => \E p \in 1..Len(t) : DeclaredWithKeywordAt(t, p, m)

\* the entry of m's name in d has the storage class captured in m
StorageClassKept(m, d) == DictGet(d, m[5]).signalType = m[2]

\* C10: a port declared without a storage-class keyword is assembled with the
\* empty storage class, never wire or reg, and its Signal Type cell is empty;
\* a storage class of wire or reg is captured only where that keyword stands
\* as a whole word between the direction keyword and the dimension or name.
C10_StorageClass ==
    /\ pc = "form" =>
          /\ \A k \in 1..Len(moduleInputs) : StorageClassFromText(moduleContents, moduleInputs[k])
          /\ \A k \in 1..Len(moduleOutputs) : StorageClassFromText(moduleContents, moduleOutputs[k])
    /\ (pc = "inputLoop" /\ i >= 1) => StorageClassKept(moduleInputs[i], inputDictionary)
    /\ (pc = "outputLoop" /\ i >= 1) => StorageClassKept(moduleOutputs[i], outputDictionary)
    /\ pc = "done" =>
          /\ \A k \in 1..Len(inputDictionary) :
                csvRows[1 + k][3] =
                    moduleInputs[LastIndex(moduleInputs, numInputs, inputDictionary[k][1])][2]
          /\ \A k \in 1..Len(outputDictionary) :
                csvRows[1 + Len(inputDictionary) + k][3] =
                    moduleOutputs[LastIndex(moduleOutputs, numOutputs, outputDictionary[k][1])][2]

\* a finished report with an empty Signal Type cell for a port declared
\* without keyword, and a reg cell for a port declared with it
C10_Witness ==
    /\ pc = "done"
    /\ \E k \in 1..numInputs : moduleInputs[k][2] = <<>>
    /\ \E k \in 2..Len(csvRows) : csvRows[k][3] = <<>>
    /\ \E k \in 2..Len(csvRows) : csvRows[k][3] = kwReg

====
